---- MODULE Spec2Model ----
(***************************************************************************)
(* Model of pyrce/interface.py: the Publisher / Subscriber / Service       *)
(* endpoints of the RoboEarth Cloud Engine client and the ROS bridge       *)
(* (ROSService) that turns the asynchronous reply into a blocking call.    *)
(*                                                                         *)
(* Python objects are records of their attributes; reading an attribute    *)
(* that an object does not have raises AttributeError, as in Python.       *)
(* The Connection (sendMessage, registerInterface / unregisterInterface    *)
(* and the dispatch of inbound messages) is not part of interface.py and   *)
(* is modelled from the specification.                                     *)
(***************************************************************************)
EXTENDS Integers, Sequences, FiniteSets, TLC

\* ---------------------------------------------------------------- bounds
MaxUid == 3          \* correlation ids uuid4 can hand out are 1..MaxUid
MaxInbound == 3      \* inbound messages the Connection receives in a run
MaxInflight == 1     \* inbound messages waiting on the Connection at once
MaxUnsub == 2        \* explicit unsubscribe() calls in a run
NumCallers == 2      \* threads of the ROS side that call _rosCB (K)
MaxPublish == 2      \* publish() calls in a run
MaxStepCalls == 2    \* calls made in a run of the two-step specification
MaxReplies == 2      \* replies received in a run of the two-step specification

\* ------------------------------------------------------------- constants
NIL == 0             \* the 'nil' correlation id used by publish

UIDs == 1..MaxUid
Callers == 1..NumCallers
Payloads == {"p1", "p2"}
Requests == {"q1"}
MsgTypes == {"Foo", "pkg/Add"}
SrvTypes == {"Add", "pkg/Add"}

\* ------------------------------------------------ Python values and tests
None == [cls |-> "NoneType"]
AnyMsg(buff) == [cls |-> "AnyMsg", _buff |-> buff]

\* isinstance(x, genpy.message.Message); rospy.AnyMsg derives from Message
IsMessage(x) == x.cls = "AnyMsg"

\* callback arguments a caller can hand to Service(...) and Service.call:
\*   "None"   None                       (falsy, not callable)
\*   "fnA"    a function                 (truthy, callable)
\*   "fnD"    another function           (truthy, callable)
\*   "zero"   the integer 0              (falsy, not callable)
\*   "text"   a non-empty string         (truthy, not callable)
\*   "emptyC" a callable whose truth value is False (defines __call__ and
\*            a __len__ that returns 0)
CbValues == {"None", "fnA", "fnD", "zero", "text", "emptyC"}
Truthy(cb) == cb \in {"fnA", "fnD", "text"}
Callable(cb) == cb \in {"fnA", "fnD", "emptyC"}

HasAttr(obj, a) == a \in DOMAIN obj

\* what a name is bound to after the constructor called for it has raised
NoObject == [cls |-> "unbound"]

\* srvType.split('/') for the type names of the model
split(srvType) ==
    IF srvType = "pkg/Add" THEN <<"pkg", "Add">> ELSE <<srvType>>

\* dictionaries
EmptyDict == [k \in {} |-> None]
DictPut(d, k, v) == [x \in DOMAIN d \cup {k} |-> IF x = k THEN v ELSE d[x]]
DictDel(d, k) == [x \in DOMAIN d \ {k} |-> d[x]]
\* dict.pop(k, None)
DictPop(d, k) == [value |-> IF k \in DOMAIN d THEN d[k] ELSE None,
                  dict |-> DictDel(d, k)]

\* twisted Deferred with one callback added by addCallback(cb, *args)
Deferred(cb, args) == [cls |-> "Deferred", cb |-> cb, args |-> args]

\* ------------------------------------------------------------------ state
VARIABLES
    sub,        \* the Subscriber object
    srv,        \* the Service object
    ros,        \* the ROSService object
    registry,   \* Connection: set of <<tag, endpoint>> registrations
    sent,       \* Connection: sequence of sendMessage calls
    inflight,   \* Connection: inbound messages not yet dispatched
    alive,      \* endpoints whose finalizer has not run
    subCalls,   \* payloads the Subscriber's user callback was invoked with
    invoked,    \* continuation invocations: [id, cb, arg]
    caller,     \* per ROS caller thread: [pc, uid, ret]
    event,      \* per ROS caller thread: is its threading.Event set
    nInbound,   \* inbound messages received so far
    unsubs,     \* unsubscribe() calls that have returned
    last,       \* the operation performed by the last step and its outcome
    local       \* per thread: the local variables of the method it is inside

vars == <<sub, srv, ros, registry, sent, inflight, alive, subCalls, invoked,
          caller, event, nInbound, unsubs, last, local>>

\* thread 0 is the application's, thread c in Callers runs _rosCB for caller
\* c, the next thread is the one in which the Connection dispatches, and the
\* last one is the thread that runs ROSService.__del__.  A thread that is
\* inside a method between two of its steps holds the method's local
\* variables: the message, the id, the Event and where it is
Dispatcher == NumCallers + 1
Finalizer == NumCallers + 2
Threads == 0..Finalizer
Frame(msg, uid, ev, pc) == [msg |-> msg, uid |-> uid, ev |-> ev, pc |-> pc]
NoFrame == Frame("-", NIL, 0, "-")

NoOp == [op |-> "init", ep |-> "-", type |-> "-", msg |-> "-", id |-> NIL,
         cb |-> "-", exc |-> "none", thread |-> 0]

\* ----------------------------------------- Connection (external component)
sendMessage(log, tag, type, msg, id) ==
    Append(log, [tag |-> tag, type |-> type, msg |-> msg, id |-> id])

\* unregisterInterface removes the registration of the handler under the
\* tag.  The specification does not say what the Connection does when there
\* is no such registration: strict tells whether the Connection at hand
\* raises then, or leaves its registry as it is
unregisterInterface(reg, tag, ep, strict) ==
    IF <<tag, ep>> \notin reg /\ strict
    THEN [registry |-> reg, exc |-> "Error"]
    ELSE [registry |-> reg \ {<<tag, ep>>}, exc |-> "none"]

Handlers(reg, tag) == {ep \in {"sub", "srv", "ros"} : <<tag, ep>> \in reg}

\* the ids handed out so far: those of the requests sent and those a thread
\* has minted for a request it has not sent yet
usedUids == {sent[i].id : i \in 1..Len(sent)}
            \cup ({local[t].uid : t \in DOMAIN local} \ {NIL})

\* uuid4().hex: an id that was never handed out before.  Ids are opaque, so
\* the fresh id drawn is taken to be the smallest unused one; the result is
\* the empty set when the ids of the model are used up
uuid4 ==
    IF UIDs \ usedUids = {} THEN {}
    ELSE {CHOOSE u \in UIDs \ usedUids : \A v \in UIDs \ usedUids : u <= v}

\* -------------------------------------------------------------- _Publisher
\* publish that sends the message a second time
_Publisher_publish_twice(self, msg, log) ==
    [sent |-> sendMessage(
                  sendMessage(log, self._iTag, self._msgType, msg, NIL),
                  self._iTag, self._msgType, msg, NIL)]

_Publisher_publish(self, msg, log) ==
    [sent |-> sendMessage(log, self._iTag, self._msgType, msg, NIL)]

\* ------------------------------------------------------------- _Subscriber
\* unsubscribe that forgets to tell the Connection
_Subscriber_unsubscribe_noop(self, me, reg, strict) ==
    [registry |-> reg, exc |-> "none"]

\* line 85: the call is forwarded as it is, and so is what it raises
_Subscriber_unsubscribe(self, me, reg, strict) ==
    unregisterInterface(reg, self._iTag, me, strict)

\* callback without the type check
_Subscriber_callback_unchecked(self, msgType, msg, msgID) ==
    [exc |-> "none", calls |-> <<msg>>]

_Subscriber_callback(self, msgType, msg, msgID) ==
    IF ~(msgType = self._msgType)
    THEN [exc |-> "TypeError", calls |-> <<>>]
    ELSE [exc |-> "none", calls |-> <<msg>>]

_Subscriber___del__(self, me, reg, strict) ==
    _Subscriber_unsubscribe(self, me, reg, strict)

\* ---------------------------------------------------------------- _Service
\* __init__(self, conn, iTag, srvType) called with the positional arguments
\* args: any other number of arguments than three raises TypeError
_Service___init__(args) ==
    IF Len(args) # 3
    THEN [exc |-> "TypeError", self |-> NoObject]
    ELSE [exc |-> "none",
          self |-> [_conn |-> args[1], _iTag |-> args[2],
                    _srvType |-> args[3], _responses |-> EmptyDict]]

\* callback reads self._msgType, an attribute that _Service.__init__ never
\* sets (it sets _srvType)
\* In the results of the methods, locked names the attributes the method
\* writes inside a 'with self._pendingLock' block; callback has no such block
_Service_callback(self, msgType, msg, msgID) ==
    IF ~HasAttr(self, "_msgType")
    THEN [exc |-> "AttributeError", self |-> self, fired |-> <<>>,
          locked |-> {}]
    ELSE IF ~(msgType = self._msgType)
    THEN [exc |-> "TypeError", self |-> self, fired |-> <<>>, locked |-> {}]
    ELSE LET p == DictPop(self._responses, msgID)
             popped == [self EXCEPT !._responses = p.dict]
         IN  IF p.value.cls = "Deferred"
             THEN [exc |-> "none", self |-> popped,
                   fired |-> <<[id |-> msgID, deferred |-> p.value,
                                arg |-> msg]>>,
                   locked |-> {}]
             ELSE [exc |-> "none", self |-> popped, fired |-> <<>>,
                   locked |-> {}]

\* finalizer that resolves every pending Deferred with a cancellation value
_Service___del___notify(self, me, reg, strict) ==
    LET u == unregisterInterface(reg, self._iTag, me, strict)
    IN  [registry |-> u.registry, exc |-> u.exc,
         fired |-> IF DOMAIN self._responses = {} THEN <<>>
                   ELSE LET k == CHOOSE x \in DOMAIN self._responses : TRUE
                        IN  <<[id |-> k, deferred |-> self._responses[k],
                               arg |-> "cancelled"]>>,
         locked |-> {}]

\* __del__ only unregisters; it fires no Deferred and leaves _responses alone
_Service___del__(self, me, reg, strict) ==
    LET u == unregisterInterface(reg, self._iTag, me, strict)
    IN  [registry |-> u.registry, exc |-> u.exc, fired |-> <<>>,
         locked |-> {}]

\* ----------------------------------------------------------------- Service
Service___init__(conn, iTag, srvType, cb) ==
    LET b == _Service___init__(<<conn, iTag, srvType>>)
    IN  IF b.exc # "none" THEN b
        ELSE [exc |-> "none",
              self |-> [_conn |-> b.self._conn, _iTag |-> b.self._iTag,
                        _srvType |-> b.self._srvType,
                        _responses |-> b.self._responses, _cb |-> cb]]

\* call up to line 170: choose the callback, store the Deferred under uid;
\* Service has no lock, and call has no 'with' block
Service_call_store(self, cb, uid) ==
    LET cb1 == IF ~Truthy(cb) THEN self._cb ELSE cb
    IN  IF ~Callable(cb1)
        THEN [exc |-> "TypeError", self |-> self, locked |-> {}]
        ELSE [exc |-> "none",
              self |-> [self EXCEPT !._responses =
                           DictPut(@, uid, Deferred(cb1, <<>>))],
              locked |-> {}]

\* line 172 of call
Service_call_send(self, msg, uid, log) ==
    sendMessage(log, self._iTag, self._srvType, msg, uid)

Service_call(self, msg, cb, uid, log) ==
    LET s == Service_call_store(self, cb, uid)
    IN  IF s.exc # "none"
        THEN [exc |-> s.exc, self |-> s.self, sent |-> log,
              locked |-> s.locked]
        ELSE [exc |-> "none", self |-> s.self,
              sent |-> Service_call_send(s.self, msg, uid, log),
              locked |-> s.locked]

\* -------------------------------------------------------------- ROSService
\* the attributes lines 253-255 add to those of the base class
ROSServiceAttrs(base) ==
    [_conn |-> base._conn, _iTag |-> base._iTag, _srvType |-> base._srvType,
     _responses |-> base._responses, _service |-> "running",
     _pendingLock |-> "free", _pending |-> EmptyDict]

\* __init__ hands the base initializer four arguments (line 237), one more
\* than it takes, so every construction raises TypeError there
ROSService___init__(conn, iTag, srvType, addr) ==
    LET b == _Service___init__(<<conn, iTag, srvType, None>>)
    IN  IF b.exc # "none" THEN b
        ELSE IF Len(split(srvType)) # 2
        THEN [exc |-> "ValueError", self |-> NoObject]
        ELSE [exc |-> "none", self |-> ROSServiceAttrs(b.self)]

\* _rosCB up to event.wait(): mint the id, store the Deferred that will run
\* self._callback(msg, uid, event), forward the request
ROSService__rosCB_send(self, req, uid, ev, log) ==
    [self |-> [self EXCEPT !._responses =
                  DictPut(@, uid, Deferred("_callback", <<uid, ev>>))],
     sent |-> sendMessage(log, self._iTag, self._srvType, req, uid),
     locked |-> {}]

\* _rosCB up to line 264: the Deferred is built but not stored
ROSService__rosCB_unstored(self, uid, ev) == self

\* _rosCB up to line 265: the Deferred is stored under uid
ROSService__rosCB_store(self, uid, ev) ==
    [self EXCEPT !._responses =
        DictPut(@, uid, Deferred("_callback", <<uid, ev>>))]

\* lines 267-268 of _rosCB
ROSService__rosCB_post(self, req, uid, log) ==
    sendMessage(log, self._iTag, self._srvType, req, uid)

\* _rosCB after event.wait() has returned
ROSService__rosCB_wake(self, uid) ==
    LET p == DictPop(self._pending, uid)
        self1 == [self EXCEPT !._pending = p.dict]
    IN  IF ~IsMessage(p.value)
        THEN [exc |-> "Interrupted", ret |-> None, self |-> self1,
              locked |-> {"_pending"}]
        ELSE [exc |-> "none", ret |-> p.value, self |-> self1,
              locked |-> {"_pending"}]

ROSService__callback(self, msg, uid, ev) ==
    [self |-> [self EXCEPT !._pending = DictPut(@, uid, AnyMsg(msg))],
     set |-> {ev}, locked |-> {"_pending"}]

\* lines 294-295 of __del__: unregister, shut the rospy service down; when
\* the base finalizer raises, line 295 is not reached
ROSService___del___head(self, me, reg, strict) ==
    LET d == _Service___del__(self, me, reg, strict)
    IN  [registry |-> d.registry, exc |-> d.exc,
         self |-> IF d.exc # "none" THEN self
                  ELSE [self EXCEPT !._service = "shutdown"]]

\* lines 297-301 of __del__, inside the lock: the walk over the values of
\* _pending calls set() on each; the values of _pending are the AnyMsg
\* responses stored by _callback, which have no set(); the Event objects of
\* the blocked callers are not in _pending
ROSService___del___walk(self) ==
    IF \E k \in DOMAIN self._pending : self._pending[k].cls # "Event"
    THEN [self |-> self, exc |-> "AttributeError", set |-> {},
          locked |-> {"_pending"}]
    ELSE [self |-> [self EXCEPT !._pending = EmptyDict], exc |-> "none",
          set |-> {self._pending[k].ev : k \in DOMAIN self._pending},
          locked |-> {"_pending"}]

\* ------------------------------------------------------------------- Init
\* the Publisher has no mutable attribute and is never registered
PublisherInit ==
    [_conn |-> "conn", _iTag |-> "pub1", _msgType |-> "Foo"]

SubscriberInit ==
    [_conn |-> "conn", _iTag |-> "topic1", _msgType |-> "Foo",
     _cb |-> "userCb"]

ServiceInit(cb) == Service___init__("conn", "srv1", "pkg/Add", cb).self

\* The program after its constructors: ROSService("conn", "ros1", srvType,
\* addr) has raised, so there is no ROSService, and nothing is registered
\* under its tag
Init ==
    /\ sub = SubscriberInit
    /\ \E cb \in {"None", "fnD"} : srv = ServiceInit(cb)
    /\ ros = ROSService___init__("conn", "ros1", "pkg/Add", "/addr").self
    /\ registry = {<<"topic1", "sub">>, <<"srv1", "srv">>}
    /\ sent = <<>>
    /\ inflight = {}
    /\ alive = {"sub", "srv"}
    /\ subCalls = <<>>
    /\ invoked = <<>>
    /\ caller = [c \in Callers |-> [pc |-> "idle", uid |-> NIL, ret |-> None]]
    /\ event = [c \in Callers |-> FALSE]
    /\ nInbound = 0
    /\ unsubs = 0
    /\ last = NoOp
    /\ local = [t \in Threads |-> NoFrame]

\* No run of the program holds a ROSService.  The order of the store and
\* the send in _rosCB (lines 265, 267-268) is a property of the method's
\* text, so the two-step specification applies _rosCB to a receiver given as
\* input beside the Service the constructor builds: an object that carries
\* the attributes lines 107-111 and 253-255 name, with empty tables,
\* registered under its tag.  No other specification starts here.
ROSServiceSelf ==
    ROSServiceAttrs(_Service___init__(<<"conn", "ros1", "pkg/Add">>).self)

InitRos ==
    /\ sub = SubscriberInit
    /\ \E cb \in {"None", "fnD"} : srv = ServiceInit(cb)
    /\ ros = ROSServiceSelf
    /\ registry = {<<"topic1", "sub">>, <<"srv1", "srv">>, <<"ros1", "ros">>}
    /\ sent = <<>>
    /\ inflight = {}
    /\ alive = {"sub", "srv", "ros"}
    /\ subCalls = <<>>
    /\ invoked = <<>>
    /\ caller = [c \in Callers |-> [pc |-> "idle", uid |-> NIL, ret |-> None]]
    /\ event = [c \in Callers |-> FALSE]
    /\ nInbound = 0
    /\ unsubs = 0
    /\ last = NoOp
    /\ local = [t \in Threads |-> NoFrame]

\* ---------------------------------------------------------------- actions
InboundMsgs ==
    [tag : {"topic1"}, type : MsgTypes, msg : Payloads, id : {NIL}]
    \cup [tag : {"srv1", "ros1"}, type : MsgTypes, msg : Payloads, id : UIDs]

\* the Connection receives a message from the cloud engine
Inbound(m) ==
    /\ nInbound < MaxInbound
    /\ Cardinality(inflight) < MaxInflight
    /\ m \notin inflight
    /\ inflight' = inflight \cup {m}
    /\ nInbound' = nInbound + 1
    /\ last' = [NoOp EXCEPT !.op = "inbound"]
    /\ UNCHANGED <<sub, srv, ros, registry, sent, alive, subCalls, invoked,
                   caller, event, unsubs,
                   local>>

Delivered(m, ep, exc) ==
    [NoOp EXCEPT !.op = "deliver", !.ep = ep, !.type = m.type,
                 !.msg = m.msg, !.id = m.id, !.exc = exc]

\* the Connection finds no handler registered for the tag of the message
Drop(m) ==
    /\ local[Dispatcher] = NoFrame
    /\ m \in inflight
    /\ Handlers(registry, m.tag) = {}
    /\ inflight' = inflight \ {m}
    /\ last' = [Delivered(m, "-", "none") EXCEPT !.op = "drop"]
    /\ UNCHANGED <<sub, srv, ros, registry, sent, alive, subCalls, invoked,
                   caller, event, nInbound, unsubs,
                   local>>

DeliverSub(m) ==
    /\ local[Dispatcher] = NoFrame
    /\ m \in inflight
    /\ "sub" \in Handlers(registry, m.tag)
    /\ LET r == _Subscriber_callback(sub, m.type, m.msg, m.id)
       IN  /\ subCalls' = subCalls \o r.calls
           /\ last' = Delivered(m, "sub", r.exc)
    /\ inflight' = inflight \ {m}
    /\ UNCHANGED <<sub, srv, ros, registry, sent, alive, invoked, caller,
                   event, nInbound, unsubs,
                   local>>

\* deferred.callback(msg) of the Deferreds built by Service.call
Invocations(fired) ==
    [i \in 1..Len(fired) |->
        [id |-> fired[i].id, cb |-> fired[i].deferred.cb,
         arg |-> fired[i].arg]]

DeliverSrv(m) ==
    /\ local[Dispatcher] = NoFrame
    /\ m \in inflight
    /\ "srv" \in Handlers(registry, m.tag)
    /\ LET r == _Service_callback(srv, m.type, m.msg, m.id)
       IN  /\ srv' = r.self
           /\ invoked' = invoked \o Invocations(r.fired)
           /\ last' = Delivered(m, "srv", r.exc)
    /\ inflight' = inflight \ {m}
    /\ UNCHANGED <<sub, ros, registry, sent, alive, subCalls, caller, event,
                   nInbound, unsubs,
                   local>>

\* one step of the dispatching thread on a message for the ROSService:
\* callback up to the pop of the Deferred (line 119), whose firing enters
\* _callback; then the write of the result slot inside the lock (lines
\* 286-287); then event.set() (line 289)
DeliverRos(m) ==
    /\ IF local[Dispatcher] = NoFrame
       THEN /\ m \in inflight
            /\ "ros" \in Handlers(registry, m.tag)
            /\ LET r == _Service_callback(ros, m.type, m.msg, m.id)
               IN  /\ ros' = r.self
                   /\ local' =
                         IF r.fired = <<>> THEN local
                         ELSE [local EXCEPT ![Dispatcher] =
                                 Frame(r.fired[1].arg,
                                       r.fired[1].deferred.args[1],
                                       r.fired[1].deferred.args[2], "fired")]
                   /\ last' = Delivered(m, "ros", r.exc)
            /\ inflight' = inflight \ {m}
            /\ event' = event
       ELSE LET f == local[Dispatcher]
                c == ROSService__callback(ros, f.msg, f.uid, f.ev)
            IN  /\ m = [tag |-> ros._iTag, type |-> ros._srvType,
                        msg |-> f.msg, id |-> f.uid]
                /\ IF f.pc = "fired"
                   THEN /\ ros' = c.self
                        /\ event' = event
                        /\ local' = [local EXCEPT ![Dispatcher].pc = "written"]
                   ELSE /\ ros' = ros
                        /\ event' = [e \in Callers |->
                                        event[e] \/ e \in c.set]
                        /\ local' = [local EXCEPT ![Dispatcher] = NoFrame]
                /\ inflight' = inflight
                /\ last' = [Delivered(m, "ros", "none") EXCEPT
                               !.op = "_callback"]
    /\ UNCHANGED <<sub, srv, registry, sent, alive, subCalls, invoked,
                   caller, nInbound, unsubs>>

Unsubscribe ==
    /\ "sub" \in alive
    /\ unsubs < MaxUnsub
    /\ \E strict \in BOOLEAN :
          LET r == _Subscriber_unsubscribe(sub, "sub", registry, strict)
          IN  /\ registry' = r.registry
              /\ last' = [NoOp EXCEPT !.op = "unsubscribe", !.ep = "sub",
                                      !.exc = r.exc]
    /\ unsubs' = unsubs + 1
    /\ UNCHANGED <<sub, srv, ros, sent, inflight, alive, subCalls, invoked,
                   caller, event, nInbound,
                   local>>

SubDel ==
    /\ "sub" \in alive
    /\ \E strict \in BOOLEAN :
          LET r == _Subscriber___del__(sub, "sub", registry, strict)
          IN  /\ registry' = r.registry
              /\ last' = [NoOp EXCEPT !.op = "__del__", !.ep = "sub",
                                      !.exc = r.exc]
    /\ unsubs' = unsubs + 1
    /\ alive' = alive \ {"sub"}
    /\ UNCHANGED <<sub, srv, ros, sent, inflight, subCalls, invoked, caller,
                   event, nInbound,
                   local>>

Call(msg, cb, uid) ==
    /\ "srv" \in alive
    /\ uid \in uuid4
    /\ LET r == Service_call(srv, msg, cb, uid, sent)
       IN  /\ srv' = r.self
           /\ sent' = r.sent
           /\ last' = [NoOp EXCEPT !.op = "call", !.ep = "srv", !.msg = msg,
                          !.cb = cb, !.exc = r.exc,
                          !.id = IF r.exc = "none" THEN uid ELSE NIL]
    /\ UNCHANGED <<sub, ros, registry, inflight, alive, subCalls, invoked,
                   caller, event, nInbound, unsubs,
                   local>>

SrvDel ==
    /\ "srv" \in alive
    /\ \E strict \in BOOLEAN :
          LET r == _Service___del__(srv, "srv", registry, strict)
          IN  /\ registry' = r.registry
              /\ invoked' = invoked \o Invocations(r.fired)
              /\ last' = [NoOp EXCEPT !.op = "__del__", !.ep = "srv",
                                      !.exc = r.exc]
    /\ alive' = alive \ {"srv"}
    /\ UNCHANGED <<sub, srv, ros, sent, inflight, subCalls, caller, event,
                   nInbound, unsubs,
                   local>>

\* one step of the thread in which rospy runs _rosCB for caller c: forward
\* the request and block, or, once the Event is set, wake up and finish
RosCB(c, req, uid) ==
    /\ IF caller[c].pc = "idle"
       THEN /\ "ros" \in alive
            /\ ros._service = "running"
            /\ uid \in uuid4
            /\ LET r == ROSService__rosCB_send(ros, req, uid, c, sent)
               IN  /\ ros' = r.self
                   /\ sent' = r.sent
            /\ caller' = [caller EXCEPT ![c] =
                             [pc |-> "waiting", uid |-> uid, ret |-> None]]
            /\ last' = [NoOp EXCEPT !.op = "_rosCB", !.ep = "ros",
                                    !.msg = req, !.id = uid, !.thread = c]
       ELSE /\ caller[c].pc = "waiting"
            /\ event[c]
            /\ uid = caller[c].uid
            /\ LET r == ROSService__rosCB_wake(ros, caller[c].uid)
               IN  /\ ros' = r.self
                   /\ caller' = [caller EXCEPT ![c] =
                         [pc |-> IF r.exc = "none" THEN "returned"
                                                   ELSE "raised",
                          uid |-> uid, ret |-> r.ret]]
                   /\ last' = [NoOp EXCEPT !.op = "_rosCB", !.ep = "ros",
                                  !.id = uid, !.thread = c, !.exc = r.exc]
            /\ sent' = sent
    /\ UNCHANGED <<sub, srv, registry, inflight, alive, subCalls, invoked,
                   event, nInbound, unsubs,
                   local>>

\* ROSService(conn, iTag, srvType, addr) called again
RosNew(srvType) ==
    /\ LET r == ROSService___init__("conn", "ros1", srvType, "/addr")
       IN  /\ ros' = IF r.exc = "none" THEN r.self ELSE ros
           /\ last' = [NoOp EXCEPT !.op = "__init__", !.ep = "ros",
                                   !.type = srvType, !.exc = r.exc]
    /\ UNCHANGED <<sub, srv, registry, sent, inflight, alive, subCalls,
                   invoked, caller, event, nInbound, unsubs, local>>

\* one step of the thread that runs ROSService.__del__: lines 294-295,
\* after which it waits for _pendingLock; then, with the lock, lines 297-301
RosDel ==
    /\ IF local[Finalizer] = NoFrame
       THEN /\ "ros" \in alive
            /\ \E strict \in BOOLEAN :
                  LET h == ROSService___del___head(ros, "ros", registry,
                                                   strict)
                  IN  /\ registry' = h.registry
                      /\ ros' = h.self
                      /\ local' = IF h.exc # "none" THEN local
                                  ELSE [local EXCEPT ![Finalizer] =
                                          Frame("-", NIL, 0, "shutdown")]
                      /\ last' = [NoOp EXCEPT !.op = "shutdown",
                                     !.ep = "ros", !.exc = h.exc]
            /\ event' = event
            /\ alive' = alive \ {"ros"}
       ELSE /\ LET w == ROSService___del___walk(ros)
               IN  /\ ros' = w.self
                   /\ event' = [e \in Callers |-> event[e] \/ e \in w.set]
                   /\ last' = [NoOp EXCEPT !.op = "__del__", !.ep = "ros",
                                           !.exc = w.exc]
            /\ registry' = registry
            /\ alive' = alive
            /\ local' = [local EXCEPT ![Finalizer] = NoFrame]
    /\ UNCHANGED <<sub, srv, sent, inflight, subCalls, invoked, caller,
                   nInbound, unsubs>>

\* Service.call and _rosCB in two steps each, with the other threads free
\* to run in between: first the lines up to the store of the Deferred, then
\* the sendMessage
CallStore(msg, cb, uid) ==
    /\ "srv" \in alive
    /\ local[0] = NoFrame
    /\ Cardinality(usedUids) < MaxStepCalls
    /\ uid \in uuid4
    /\ LET r == Service_call_store(srv, cb, uid)
       IN  /\ srv' = r.self
           /\ local' = IF r.exc = "none"
                       THEN [local EXCEPT ![0] = Frame(msg, uid, 0, "stored")]
                       ELSE local
           /\ last' = [NoOp EXCEPT !.op = "call", !.ep = "srv", !.msg = msg,
                          !.cb = cb, !.exc = r.exc,
                          !.id = IF r.exc = "none" THEN uid ELSE NIL]
    /\ UNCHANGED <<sub, ros, registry, sent, inflight, alive, subCalls,
                   invoked, caller, event, nInbound, unsubs>>

CallSend ==
    /\ local[0] # NoFrame
    /\ sent' = Service_call_send(srv, local[0].msg, local[0].uid, sent)
    /\ local' = [local EXCEPT ![0] = NoFrame]
    /\ last' = [NoOp EXCEPT !.op = "send", !.ep = "srv",
                            !.msg = local[0].msg, !.id = local[0].uid]
    /\ UNCHANGED <<sub, srv, ros, registry, inflight, alive, subCalls,
                   invoked, caller, event, nInbound, unsubs>>

RosStore(c, req, uid) ==
    /\ caller[c].pc = "idle"
    /\ local[c] = NoFrame
    /\ Cardinality(usedUids) < MaxStepCalls
    /\ "ros" \in alive
    /\ ros._service = "running"
    /\ uid \in uuid4
    /\ ros' = ROSService__rosCB_store(ros, uid, c)
    /\ local' = [local EXCEPT ![c] = Frame(req, uid, c, "stored")]
    /\ last' = [NoOp EXCEPT !.op = "_rosCB", !.ep = "ros", !.msg = req,
                            !.id = uid, !.thread = c]
    /\ UNCHANGED <<sub, srv, registry, sent, inflight, alive, subCalls,
                   invoked, caller, event, nInbound, unsubs>>

RosSend(c) ==
    /\ local[c] # NoFrame
    /\ sent' = ROSService__rosCB_post(ros, local[c].msg, local[c].uid, sent)
    /\ caller' = [caller EXCEPT ![c] =
                     [pc |-> "waiting", uid |-> local[c].uid, ret |-> None]]
    /\ local' = [local EXCEPT ![c] = NoFrame]
    /\ last' = [NoOp EXCEPT !.op = "send", !.ep = "ros",
                            !.msg = local[c].msg, !.id = local[c].uid,
                            !.thread = c]
    /\ UNCHANGED <<sub, srv, ros, registry, inflight, alive, subCalls,
                   invoked, event, nInbound, unsubs>>

\* the cloud engine answers a request it has received, with a message of
\* the type of the service
Reply(m) ==
    /\ \E i \in 1..Len(sent) :
          sent[i].tag = m.tag /\ sent[i].id = m.id /\ sent[i].type = m.type
    /\ nInbound < MaxReplies
    /\ Inbound(m)

Published == {i \in 1..Len(sent) : sent[i].tag = PublisherInit._iTag}

Publish(msg) ==
    /\ Cardinality(Published) < MaxPublish
    /\ sent' = _Publisher_publish(PublisherInit, msg, sent).sent
    /\ last' = [NoOp EXCEPT !.op = "publish", !.ep = "pub", !.msg = msg]
    /\ UNCHANGED <<sub, srv, ros, registry, inflight, alive, subCalls,
                   invoked, caller, event, nInbound, unsubs,
                   local>>

\* the Subscriber and the Connection
NextSub ==
    \/ \E m \in InboundMsgs : m.tag = "topic1" /\ Inbound(m)
    \/ \E m \in InboundMsgs : m.tag = "topic1" /\ Drop(m)
    \/ \E m \in InboundMsgs : DeliverSub(m)
    \/ Unsubscribe
    \/ SubDel

\* the Service and the Connection
NextSrv ==
    \/ \E m \in InboundMsgs : m.tag = "srv1" /\ Inbound(m)
    \/ \E m \in InboundMsgs : m.tag = "srv1" /\ Drop(m)
    \/ \E m \in InboundMsgs : DeliverSrv(m)
    \/ \E msg \in Requests, cb \in CbValues, uid \in UIDs : Call(msg, cb, uid)
    \/ SrvDel

\* the ROSService, the threads of its callers and the Connection
NextRos ==
    \/ \E m \in InboundMsgs : m.tag = "ros1" /\ Inbound(m)
    \/ \E m \in InboundMsgs : m.tag = "ros1" /\ Drop(m)
    \/ \E m \in InboundMsgs : DeliverRos(m)
    \/ \E c \in Callers, req \in Requests, uid \in UIDs : RosCB(c, req, uid)
    \/ RosDel
    \/ \E t \in SrvTypes : RosNew(t)

\* the Publisher beside a Service with calls pending and a Subscriber
NextPub ==
    \/ \E msg \in Payloads : Publish(msg)
    \/ \E msg \in Requests, cb \in CbValues, uid \in UIDs : Call(msg, cb, uid)
    \/ Unsubscribe

Next == NextSub \/ NextSrv \/ NextRos \/ NextPub

\* all endpoints on one Connection
Spec == Init /\ [][Next]_vars

\* one endpoint and the Connection
SubSpec == Init /\ [][NextSub]_vars
SrvSpec == Init /\ [][NextSrv]_vars
PubSpec == Init /\ [][NextPub]_vars

\* the calls in two steps, and the replies to them
NextStep ==
    \/ \E msg \in Payloads, cb \in {"None", "fnA"}, uid \in UIDs :
          CallStore(msg, cb, uid)
    \/ CallSend
    \/ \E c \in Callers, req \in Requests, uid \in UIDs : RosStore(c, req, uid)
    \/ \E c \in Callers : RosSend(c)
    \/ \E m \in InboundMsgs : Reply(m)
    \/ \E m \in InboundMsgs : DeliverSrv(m)
    \/ \E m \in InboundMsgs : DeliverRos(m)

StepSpec == InitRos /\ [][NextStep]_vars

\* ----------------------------------------------------------------- claims
PendingIds == DOMAIN srv._responses

\* C1: a reply delivered to the Service with a pending correlation id and
\* the service type invokes the continuation stored for that id once, with
\* the payload of the reply, and removes the id from the pending table
C1_MatchingReplyResolvesCall ==
    [][\A m \in InboundMsgs :
          (DeliverSrv(m) /\ m.id \in PendingIds /\ m.type = srv._srvType)
          => /\ invoked' = Append(invoked,
                   [id |-> m.id, cb |-> srv._responses[m.id].cb,
                    arg |-> m.msg])
             /\ m.id \notin DOMAIN srv'._responses]_vars

\* C2: with several calls outstanding, the reply for one of them, whatever
\* its position in the issue order, reaches the continuation of its own
\* call and no other continuation
C2_NoCrossWiring ==
    [][\A m \in InboundMsgs :
          (/\ DeliverSrv(m)
           /\ Cardinality(PendingIds) >= 2
           /\ m.id \in PendingIds
           /\ m.type = srv._srvType)
          => /\ Len(invoked') = Len(invoked) + 1
             /\ \A i \in 1..Len(invoked) : invoked'[i] = invoked[i]
             /\ invoked'[Len(invoked')].id = m.id
             /\ invoked'[Len(invoked')].arg = m.msg
             /\ DOMAIN srv'._responses = PendingIds \ {m.id}]_vars

\* C3: a reply whose correlation id is not pending raises nothing, invokes
\* no continuation and leaves the pending table as it was
C3_UnknownIdIsNoOp ==
    [][\A m \in InboundMsgs :
          (DeliverSrv(m) /\ m.id \notin PendingIds)
          => /\ last'.exc = "none"
             /\ invoked' = invoked
             /\ srv'._responses = srv._responses]_vars

\* C4, C5, C14, C16 and C19 are about callers blocked in _rosCB and the
\* result slots _callback writes.  ROSService.__init__ raises at line 237,
\* so from Init no caller ever enters _rosCB and _pending is never written:
\* these claims have no case in any run, and nothing is stated for them.

\* C6: a delivery to the Subscriber with another type than the endpoint's
\* raises TypeError and does not invoke the user callback; a delivery with
\* the endpoint's type invokes it once, with the payload delivered
C6_SubscriberTypeCheck ==
    [][\A m \in InboundMsgs :
          DeliverSub(m)
          => IF m.type # sub._msgType
             THEN last'.exc = "TypeError" /\ subCalls' = subCalls
             ELSE last'.exc = "none" /\ subCalls' = Append(subCalls, m.msg)
      ]_vars

C6_Witness ==
    /\ last.op = "deliver" /\ last.ep = "sub" /\ last.exc = "TypeError"
    /\ subCalls # <<>>

\* C7: call uses the callback passed, or the default one when none is
\* passed; when the one so chosen is not callable it raises TypeError, sends
\* nothing and adds nothing to the pending table
C7_CallRejectsNonCallable ==
    [][\A msg \in Requests, cb \in CbValues, uid \in UIDs :
          Call(msg, cb, uid)
          => LET chosen == IF cb = "None" THEN srv._cb ELSE cb
             IN  IF Callable(chosen)
                 THEN /\ last'.exc = "none"
                      /\ srv'._responses =
                            DictPut(srv._responses, uid, Deferred(chosen, <<>>))
                      /\ Len(sent') = Len(sent) + 1
                 ELSE /\ last'.exc = "TypeError"
                      /\ sent' = sent
                      /\ srv'._responses = srv._responses]_vars

\* C8 (a second unsubscribe raises nothing) is decided by what the
\* Connection does with a registration it does not hold, which is left open
\* in unregisterInterface: nothing is stated for it.

\* C9: once unsubscribe() has returned, the user callback of the Subscriber
\* is never invoked again, whatever is still in flight on the Connection
C9_NoCallbackAfterUnsubscribe ==
    [][unsubs > 0 => subCalls' = subCalls]_vars

C9_Witness ==
    /\ last.op = "unsubscribe" /\ unsubs > 0
    /\ subCalls # <<>>
    /\ \E m \in inflight : m.tag = sub._iTag /\ m.type = sub._msgType

\* C10: a step that ends with the Service disposed invokes no continuation,
\* so the calls pending at disposal are never resolved, also when their
\* reply arrives later; and no call's continuation is ever invoked twice
AtMostOnce(log) ==
    \A i, j \in 1..Len(log) : log[i].id = log[j].id => i = j

C10_DisposedNeverInvokes ==
    [][/\ "srv" \notin alive' => invoked' = invoked
       /\ AtMostOnce(invoked')]_vars

C10_Witness ==
    /\ "srv" \notin alive
    /\ last.op = "drop" /\ last.type = srv._srvType
    /\ last.id \in PendingIds

\* C11: publish(msg) performs one sendMessage, with the tag and the type
\* of the Publisher, msg and the 'nil' correlation id, and changes neither a
\* pending table nor a registration
C11_PublishSendsOnce ==
    [][\A msg \in Payloads :
          Publish(msg)
          => /\ sent' = Append(sent, [tag |-> PublisherInit._iTag,
                                      type |-> PublisherInit._msgType,
                                      msg |-> msg, id |-> NIL])
             /\ srv' = srv /\ ros' = ros
             /\ registry' = registry]_vars

C11_Witness ==
    /\ last.op = "publish"
    /\ PendingIds # {}
    /\ Cardinality(Published) = 2

\* C12: the pending table of the Service holds exactly the ids of the calls
\* that were sent and for which neither a reply nor the teardown has been
\* observed: a call adds the id it sends, a reply of the service type
\* removes the id it carries, the teardown removes every id, and nothing
\* else changes the set of keys
NewlySent == {sent'[i].id : i \in (Len(sent) + 1)..Len(sent')}

C12_PendingIffOutstanding ==
    [][/\ \A m \in InboundMsgs :
             (DeliverSrv(m) /\ m.type = srv._srvType)
             => DOMAIN srv'._responses = PendingIds \ {m.id}
       /\ SrvDel => DOMAIN srv'._responses = {}
       /\ ~(SrvDel \/ \E m \in InboundMsgs : DeliverSrv(m))
             => DOMAIN srv'._responses = PendingIds \cup NewlySent]_vars

\* C13: every step that changes the pending-calls table of the Service (the
\* insertion by call, the removal by callback, the teardown) makes the
\* change inside a block that holds the lock of the endpoint
Tables == {"_responses"}
Changed == {a \in Tables : srv'[a] # srv[a]}

C13_TableMutationsHoldLock ==
    [][/\ \A msg \in Requests, cb \in CbValues, uid \in UIDs :
             Call(msg, cb, uid)
             => Changed \subseteq Service_call(srv, msg, cb, uid, sent).locked
       /\ \A m \in InboundMsgs :
             DeliverSrv(m)
             => Changed \subseteq
                   _Service_callback(srv, m.type, m.msg, m.id).locked
       /\ SrvDel
             => \A strict \in BOOLEAN :
                   Changed \subseteq
                      _Service___del__(srv, "srv", registry, strict).locked
      ]_vars

\* C15: when the reply to a call and the teardown of the Service both run,
\* in either order, the one that runs first takes the id out of the pending
\* table and the other raises nothing and changes nothing: a reply that the
\* Connection handles after the teardown finds its id gone, and a teardown
\* that follows the delivery of a reply of the service type finds the id of
\* that reply gone and completes without error
ReplyToCall(m) ==
    /\ m.tag = srv._iTag /\ m.type = srv._srvType
    /\ \E i \in 1..Len(sent) : sent[i].tag = m.tag /\ sent[i].id = m.id

C15_ReplyTeardownRace ==
    [][/\ \A m \in InboundMsgs :
             ("srv" \notin alive /\ ReplyToCall(m) /\ Drop(m))
             => /\ m.id \notin PendingIds
                /\ last'.exc = "none"
                /\ srv' = srv /\ invoked' = invoked
       /\ (/\ SrvDel
           /\ last.op = "deliver" /\ last.ep = "srv"
           /\ last.type = srv._srvType)
             => /\ last.id \notin PendingIds
                /\ last'.exc = "none"
                /\ srv' = srv /\ invoked' = invoked]_vars

\* C17: a message of the wrong type delivered to the Service raises a
\* TypeError, runs no continuation and leaves the pending table of this
\* endpoint and the tables of the ROSService as they were
C17_WrongTypeLeavesTables ==
    [][\A m \in InboundMsgs :
          (DeliverSrv(m) /\ m.type # srv._srvType)
          => /\ last'.exc = "TypeError"
             /\ invoked' = invoked
             /\ srv' = srv
             /\ ros' = ros]_vars

\* C18: whenever Service.call or _rosCB hands a request to sendMessage, the
\* entry for its id is already in the pending table of the endpoint, so the
\* reply to a request, whenever it is delivered, finds the id registered
TableOf(tag) == IF tag = srv._iTag THEN DOMAIN srv._responses
                ELSE IF tag = ros._iTag THEN DOMAIN ros._responses
                ELSE {}

C18_StoredBeforeSent ==
    [][/\ \A i \in (Len(sent) + 1)..Len(sent') :
             sent'[i].id # NIL => sent'[i].id \in TableOf(sent'[i].tag)
       /\ \A m \in InboundMsgs :
             (DeliverSrv(m) \/ DeliverRos(m)) => m.id \in TableOf(m.tag)]_vars

C18_Witness ==
    /\ local[0] # NoFrame
    /\ local[0].uid \in DOMAIN srv._responses
    /\ \E m \in inflight :
          /\ m.tag = ros._iTag
          /\ m.id \in DOMAIN ros._responses
          /\ \E i \in 1..Len(sent) : sent[i].tag = m.tag /\ sent[i].id = m.id

====
